---- MODULE Spec2Model ----
(***************************************************************************)
(* LitMeta: the citation matcher (cite_verify) and the quote validator     *)
(* (validate_quotes).  Text is modelled as sequences of one-character      *)
(* strings; an optional value (Python None / absent key) is the empty      *)
(* sequence and a present value v is <<v>>.                                *)
(***************************************************************************)
EXTENDS Integers, Sequences, FiniteSets, TLC

VARIABLES pc,        \* position of the request being served
          inputs,    \* cite_verify: out["inputs"] (title, year, doi)
          upstream,  \* cite_verify: what each external registry answered
          votes,     \* cite_verify: the votes list
          sources,   \* cite_verify: the sources list
          out,       \* cite_verify: the returned object
          payload,   \* validate_quotes: the request payload
          resp,      \* validate_quotes: the JSONResponse returned
          effects,   \* validate_quotes: which external capabilities were used
          escaped    \* an exception left cite_verify / validate_quotes

vars == <<pc, inputs, upstream, votes, sources, out, payload, resp, effects, escaped>>

(***************************************************************************)
(* Bounds                                                                  *)
(***************************************************************************)
MaxYearDelta == 1        \* registry years range over 2015-d .. 2015+d
MaxClaims == 2           \* longest enumerated paragraphs list
MaxTextLen == 3          \* longest enumerated page text (round trip)

None == << >>
Some(v) == <<v>>

Abs(n) == IF n < 0 THEN 0 - n ELSE n

(***************************************************************************)
(* str.lower() on the characters the titles below are written with.        *)
(***************************************************************************)
LowerChar(c) ==
    CASE c = "D" -> "d"
      [] c = "L" -> "l"
      [] c = "X" -> "x"
      [] OTHER -> c

Lower(s) == [i \in 1..Len(s) |-> LowerChar(s[i])]

(***************************************************************************)
(* difflib.SequenceMatcher(None, a, b).ratio(): the longest matching block *)
(* (longest, then earliest in a, then earliest in b), recursively to its   *)
(* left and right; ratio = 2*matches / (len(a)+len(b)), 1.0 for two empty  *)
(* strings.  The ratio is kept as the fraction <<numerator, denominator>>. *)
(* Indices are 1-based, ranges half-open [lo, hi).                         *)
(***************************************************************************)
RECURSIVE Extent(_, _, _, _, _, _)
Extent(a, b, i, j, ahi, bhi) ==
    IF i < ahi /\ j < bhi /\ a[i] = b[j]
    THEN 1 + Extent(a, b, i + 1, j + 1, ahi, bhi)
    ELSE 0

find_longest_match(a, b, alo, ahi, blo, bhi) ==
    LET cands == {<<i, j>> \in (alo..(ahi - 1)) \X (blo..(bhi - 1)) : a[i] = b[j]}
        size(p) == Extent(a, b, p[1], p[2], ahi, bhi)
    IN  IF cands = {} THEN [i |-> alo, j |-> blo, k |-> 0]
        ELSE LET best == CHOOSE p \in cands :
                            \A q \in cands :
                               \/ size(p) > size(q)
                               \/ /\ size(p) = size(q)
                                  /\ \/ p[1] < q[1]
                                     \/ p[1] = q[1] /\ p[2] <= q[2]
             IN  [i |-> best[1], j |-> best[2], k |-> size(best)]

RECURSIVE matches(_, _, _, _, _, _)
matches(a, b, alo, ahi, blo, bhi) ==
    IF alo >= ahi \/ blo >= bhi THEN 0
    ELSE LET m == find_longest_match(a, b, alo, ahi, blo, bhi)
         IN  IF m.k = 0 THEN 0
             ELSE m.k + matches(a, b, alo, m.i, blo, m.j)
                      + matches(a, b, m.i + m.k, ahi, m.j + m.k, bhi)

ratio(a, b) ==
    LET length == Len(a) + Len(b)
    IN  IF length = 0 THEN <<1, 1>>
        ELSE <<2 * matches(a, b, 1, Len(a) + 1, 1, Len(b) + 1), length>>

(***************************************************************************)
(* cite_verify: the request and what the three registries may answer.      *)
(***************************************************************************)
TDeepLearn == <<"D", "e", "e", "p", " ", "L", "e", "a", "r", "n">>
TDeep == <<"D", "e", "e", "p">>
TLowerCase == <<"d", "e", "e", "p", " ", "l", "e", "a", "r", "n">>
TOneOff == <<"D", "e", "e", "p", " ", "L", "e", "a", "r", "X">>
TTwoOff == <<"D", "e", "e", "p", " ", "L", "e", "x", "x", "n">>

ClaimTitles == {TDeepLearn, TDeep}
ClaimYears == {0, 2015, 2017}
ClaimDois == {"", "10.1000/x"}
SrcTitles == {TLowerCase, TOneOff, TTwoOff}
SrcYears == {2015 + d : d \in (0 - MaxYearDelta)..MaxYearDelta}

Vias == {"crossref", "pubmed", "doi.org"}

\* issued is the shape of a Crossref item's "issued": "parts" for
\* {"date-parts": [[year, ...]]} (year holds its first number, None for null),
\* "absent" for no issued key, "no_parts" for {}, "empty" for
\* {"date-parts": []}, "empty_tuple" for {"date-parts": [[]]}.
NoAnswer(k) == [kind |-> k, title |-> << >>, year |-> None, issued |-> "parts"]
Record(t, y, i) == [kind |-> "record", title |-> t, year |-> y, issued |-> i]
IssuedWithoutYear == {"absent", "no_parts", "empty", "empty_tuple"}

\* Crossref: the GET raises; a status other than 200; 200 with a body that is
\* not JSON; 200 with no items; 200 with a top item (its issued year may be
\* null, its issued may carry no year at all, its title may be missing).
CrossrefOutcomes ==
    {NoAnswer(k) : k \in {"raise", "non200", "unparsable", "noitems"}}
    \cup {Record(t, y, "parts") :
             t \in SrcTitles, y \in {Some(n) : n \in SrcYears} \cup {None}}
    \cup {Record(TLowerCase, None, i) : i \in IssuedWithoutYear}
    \cup {Record(<< >>, Some(2015), "parts")}

(***************************************************************************)
(* PubMed's PubDate Year is text: str(y)[:4], isdigit(), int().            *)
(***************************************************************************)
Digits == <<"0", "1", "2", "3", "4", "5", "6", "7", "8", "9">>
IsDigit(c) == \E d \in 1..10 : Digits[d] = c
DigitVal(c) == (CHOOSE d \in 1..10 : Digits[d] = c) - 1
isdigit(s) == Len(s) > 0 /\ \A i \in 1..Len(s) : IsDigit(s[i])

RECURSIVE int(_)
int(s) == IF s = << >> THEN 0
          ELSE 10 * int(SubSeq(s, 1, Len(s) - 1)) + DigitVal(s[Len(s)])

Prefix(s, n) == SubSeq(s, 1, IF Len(s) < n THEN Len(s) ELSE n)

\* the text of a year 1000..9999, as the registry would send it
YearText(n) == <<Digits[(n \div 1000) + 1], Digits[((n \div 100) % 10) + 1],
                 Digits[((n \div 10) % 10) + 1], Digits[(n % 10) + 1]>>

\* PubMed: esearch raises; esearch body is not JSON; esearch answers without
\* ids (a JSON error body of a non-200 answer included: the status is never
\* looked at); efetch raises or its XML lacks the article; a record (its
\* PubDate may have no Year or a Year that is not a number, its ArticleTitle
\* may be missing).
TSpring == <<"S", "p", "r", "i", "n", "g">>
PubmedOutcomes ==
    {NoAnswer(k) : k \in {"raise", "unparsable", "non200_json", "noids", "malformed"}}
    \cup {Record(t, Some(YearText(n)), "parts") : t \in SrcTitles, n \in SrcYears}
    \cup {Record(TLowerCase, y, "parts") : y \in {None, Some(TSpring)}}
    \cup {Record(<< >>, Some(YearText(2015)), "parts")}

\* doi_resolve: raises; answers without ok; answers an ok record.
DoiOutcomes ==
    {NoAnswer(k) : k \in {"raise", "notok"}}
    \cup {Record(t, y, "parts") :
             t \in SrcTitles, y \in {Some(n) : n \in SrcYears} \cup {None}}

NotAttempted == NoAnswer("not_attempted")
Pending == NoAnswer("pending")

(***************************************************************************)
(* One source's block: what the body of its try appends before it ends or  *)
(* raises (exc is the exception raised, "" for none).                      *)
(***************************************************************************)
Threshold(sim) == sim[1] * 10 >= 9 * sim[2]          \* sim >= 0.9

\* the tolerance widened to two years
YearWithinTwo(src_year, year) == Abs(src_year - year) <= 2

YearWithin(src_year, year) == Abs(src_year - year) <= 1

Quiet == [exc |-> "", votes |-> << >>, sources |-> << >>]
Raises(e) == [exc |-> e, votes |-> << >>, sources |-> << >>]

\* lines 19-22, 43-46, 55-58: sim, match, votes.append, sources.append.
\* yr is the registry's year, None when null; ifNone is what the block makes
\* of a null year ("raise": abs(None - year) is a TypeError).
Vote(via, inp, title, yr, ifNone) ==
    LET sim == ratio(Lower(inp.title), Lower(title))
        reads_year == Threshold(sim) /\ inp.year # 0
    IN  IF reads_year /\ yr = None /\ ifNone = "raise" THEN Raises("TypeError")
        ELSE LET y == IF yr = None THEN 0 ELSE yr[1]
                 match == Threshold(sim) /\ (inp.year = 0 \/ YearWithin(y, inp.year))
             IN  [exc |-> "",
                  votes |-> <<[via |-> via, match |-> match]>>,
                  sources |-> <<[via |-> via, title |-> title, year |-> yr,
                                 similarity |-> sim]>>]

\* line 18: (it.get("issued", {}).get("date-parts") or [[0]])[0][0]
cr_year(o) ==
    CASE o.issued \in {"absent", "no_parts", "empty"} -> [exc |-> "", year |-> Some(0)]
      [] o.issued = "empty_tuple" -> [exc |-> "IndexError", year |-> None]
      [] OTHER -> [exc |-> "", year |-> o.year]

CrossrefBody(inp, o) ==
    CASE o.kind = "raise" -> Raises("ConnectError")
      [] o.kind = "non200" -> Quiet
      [] o.kind = "unparsable" -> Raises("JSONDecodeError")
      [] o.kind = "noitems" -> Quiet
      [] OTHER -> LET y == cr_year(o)
                  IN  IF y.exc # "" THEN Raises(y.exc)
                      ELSE Vote("crossref", inp, o.title, y.year, "raise")

pm_year(y) ==
    LET t == IF y = None \/ y[1] = << >> THEN <<"0">> ELSE y[1]
    IN  IF isdigit(Prefix(t, 4)) THEN int(Prefix(t, 4)) ELSE 0

PubmedBody(inp, o) ==
    CASE o.kind = "raise" -> Raises("ConnectError")
      [] o.kind = "unparsable" -> Raises("JSONDecodeError")
      [] o.kind = "non200_json" -> Quiet
      [] o.kind = "noids" -> Quiet
      [] o.kind = "malformed" -> Raises("KeyError")
      [] OTHER -> Vote("pubmed", inp, o.title, Some(pm_year(o.year)), "raise")

DoiBody(inp, o) ==
    CASE o.kind = "raise" -> Raises("HTTPError")
      [] o.kind = "notok" -> Quiet
      [] OTHER -> Vote("doi.org", inp, o.title, o.year, "zero")

\* a failed source counted as a vote against
TryExceptVotesAgainst(via, r) ==
    IF r.exc = "" THEN r
    ELSE [exc |-> "", votes |-> Append(r.votes, [via |-> via, match |-> FALSE]),
          sources |-> Append(r.sources, [via |-> via, error |-> r.exc])]

\* try: ... except Exception as e: sources.append({"via": via, "error": str(e)})
TryExcept(via, r) ==
    IF r.exc = "" THEN r
    ELSE [exc |-> "", votes |-> r.votes,
          sources |-> Append(r.sources, [via |-> via, error |-> r.exc])]

\* lines 62-63
ok_votes(vs) == Cardinality({i \in 1..Len(vs) : vs[i].match})

\* a majority of the votes asked for
StatusByMajority(vs) ==
    IF 2 * ok_votes(vs) > Len(vs) THEN "verified"
    ELSE IF vs # << >> THEN "mismatch" ELSE "unverified"

Status(vs) ==
    IF ok_votes(vs) >= 1 THEN "verified"
    ELSE IF vs # << >> THEN "mismatch" ELSE "unverified"

(***************************************************************************)
(* validate_quotes.  A JSON value is [t, s, n, items]: its type, and its   *)
(* text (t = "str"), number (t = "int") or elements (t = "list"); a key    *)
(* the object lacks reads as t = "absent".                                 *)
(***************************************************************************)
MAX_B64_BYTES == 15 * 1024 * 1024
MAX_PARAS_PER_CALL == 100
PYPDF2_OK == TRUE
HTTPX_OK == TRUE

PyVal(t, s, n, items) == [t |-> t, s |-> s, n |-> n, items |-> items]
Absent == PyVal("absent", << >>, 0, << >>)
PyNone == PyVal("none", << >>, 0, << >>)
PyStr(s) == PyVal("str", s, 0, << >>)
PyInt(n) == PyVal("int", << >>, n, << >>)
PyList(items) == PyVal("list", << >>, 0, items)

\* bool(v); dict.get(key) of a missing key is None
Truthy(v) ==
    CASE v.t = "str" -> v.s # << >>
      [] v.t = "int" -> v.n # 0
      [] v.t = "list" -> v.items # << >>
      [] OTHER -> FALSE

IsSpace(c) == c \in {" ", "\n", "\t"}

\* re.sub(r"\s+", " ", s)
RECURSIVE sub_spaces(_)
sub_spaces(s) ==
    IF s = << >> THEN << >>
    ELSE IF IsSpace(Head(s))
         THEN IF Len(s) > 1 /\ IsSpace(s[2])
              THEN sub_spaces(Tail(s))
              ELSE <<" ">> \o sub_spaces(Tail(s))
         ELSE <<Head(s)>> \o sub_spaces(Tail(s))

\* str.strip()
RECURSIVE lstrip(_)
lstrip(s) == IF s # << >> /\ IsSpace(Head(s)) THEN lstrip(Tail(s)) ELSE s

RECURSIVE rstrip(_)
rstrip(s) ==
    IF s # << >> /\ IsSpace(s[Len(s)]) THEN rstrip(SubSeq(s, 1, Len(s) - 1)) ELSE s

strip(s) == rstrip(lstrip(s))

norm(s) == strip(sub_spaces(s))

\* the quote looked for at the start of the page only
starts_with(hay, q) == Len(q) <= Len(hay) /\ SubSeq(hay, 1, Len(q)) = q

\* q in hay
contains(hay, q) ==
    \E i \in 0..(Len(hay) - Len(q)) : SubSeq(hay, i + 1, i + Len(q)) = q

\* int(x): the number, None where int() raises
py_int(v) ==
    CASE v.t = "int" -> Some(v.n)
      [] v.t = "str" /\ isdigit(v.s) -> Some(int(v.s))
      [] OTHER -> None

Code(c, d, n) == [code |-> c, detail |-> d, n |-> n]

Err(c) == [status_code |-> 200, status |-> "error", errors |-> <<c>>]

NoEffects == [decoded |-> FALSE, fetched |-> FALSE, extracted |-> FALSE, evaluated |-> 0]

Answer(r, e) == [exc |-> "", resp |-> r, effects |-> e]
Fault(x, e) == [exc |-> x, resp |-> [status |-> "none"], effects |-> e]

\* [(p.extract_text() or "") for p in reader.pages]
ExtractPages(pdf) == PyList([i \in 1..Len(pdf.pages) |->
                                PyStr(IF pdf.pages[i] = None THEN << >> ELSE pdf.pages[i][1])])

contains_pdf(content_type) == content_type \in {"application/pdf", "Application/PDF"}

lower_is_https(scheme) == scheme \in {"https", "HTTPS", "Https"}

(***************************************************************************)
(* lines 269-309: which input the page texts come from.  The result is     *)
(* either a response (an error) or the page_texts to go on with.           *)
(***************************************************************************)
Got(pt, e) == [stop |-> FALSE, resp |-> [status |-> "none"], page_texts |-> pt, effects |-> e]
Stop(r, e) == [stop |-> TRUE, resp |-> r, page_texts |-> Absent, effects |-> e]

FromB64(b) ==
    IF ~PYPDF2_OK THEN Stop(Err(Code("PyPDF2_not_installed", "", 0)), NoEffects)
    ELSE LET dec == [NoEffects EXCEPT !.decoded = TRUE]
             ext == [dec EXCEPT !.extracted = TRUE]
         IN  IF ~b.valid THEN Stop(Err(Code("b64_decode_failed", "binascii.Error", 0)), dec)
             ELSE IF b.size > MAX_B64_BYTES
                  THEN Stop(Err(Code("pdf_too_large", "", 0)) @@ [limit_bytes |-> MAX_B64_BYTES], dec)
             ELSE IF ~b.pdf.readable
                  THEN Stop(Err(Code("pdf_extract_failed", "PdfReadError", 0)), ext)
             ELSE Got(ExtractPages(b.pdf), ext)

FromUrl(u) ==
    IF ~HTTPX_OK THEN Stop(Err(Code("httpx_not_installed", "", 0)), NoEffects)
    ELSE IF ~lower_is_https(u.scheme)
         THEN Stop(Err(Code("pdf_url_must_be_https", "", 0)), NoEffects)
    ELSE LET fet == [NoEffects EXCEPT !.fetched = TRUE]
             ext == [fet EXCEPT !.extracted = TRUE]
         IN  IF u.fetch = "raise"
             THEN Stop(Err(Code("download_or_extract_failed", "ConnectError", 0)), fet)
             ELSE IF u.status_code # 200 \/ ~contains_pdf(u.content_type)
                  THEN Stop(Err(Code("download_failed_or_not_pdf", "", 0)), fet)
             ELSE IF u.size > MAX_B64_BYTES
                  THEN Stop(Err(Code("pdf_too_large", "", 0)) @@ [limit_bytes |-> MAX_B64_BYTES], fet)
             ELSE IF ~PYPDF2_OK
                  THEN Stop(Err(Code("PyPDF2_not_installed", "", 0)), fet)
             ELSE IF ~u.pdf.readable
                  THEN Stop(Err(Code("download_or_extract_failed", "PdfReadError", 0)), ext)
             ELSE Got(ExtractPages(u.pdf), ext)

\* the document bytes preferred to the page texts
AcquireBytesFirst(p) ==
    IF p.pdf_b64.truthy THEN FromB64(p.pdf_b64)
    ELSE IF p.page_texts.t = "list" /\ Truthy(p.page_texts) THEN Got(p.page_texts, NoEffects)
    ELSE IF p.pdf_url.truthy THEN FromUrl(p.pdf_url)
    ELSE Stop(Err(Code("pdf_b64_or_page_texts_or_pdf_url_required", "", 0)), NoEffects)

Acquire(p) ==
    IF p.page_texts.t = "list" /\ Truthy(p.page_texts) THEN Got(p.page_texts, NoEffects)
    ELSE IF p.pdf_b64.truthy THEN FromB64(p.pdf_b64)
    ELSE IF p.pdf_url.truthy THEN FromUrl(p.pdf_url)
    ELSE Stop(Err(Code("pdf_b64_or_page_texts_or_pdf_url_required", "", 0)), NoEffects)

(***************************************************************************)
(* lines 317-333: one paragraph.  kind is "matched", a mismatch reason, or *)
(* "raise" with the exception in exc.                                      *)
(***************************************************************************)
Outcome(k, x) == [kind |-> k, exc |-> x]

\* the page number taken as the index, without the shift to 0-based
page_index_unshifted(item) ==
    LET page == IF item.source_page.t = "absent" THEN PyInt(1) ELSE item.source_page
    IN  IF py_int(page) = None THEN 0 - 1 ELSE py_int(page)[1]

\* lines 320-323: the 0-based page index, -1 where int() raises
page_index(item) ==
    LET page == IF item.source_page.t = "absent" THEN PyInt(1) ELSE item.source_page
    IN  IF py_int(page) = None THEN 0 - 1 ELSE py_int(page)[1] - 1

Check(item, pages) ==
    IF item.t # "dict" THEN Outcome("raise", "AttributeError")
    ELSE IF item.source_quote.t # "str" THEN Outcome("raise", "TypeError")
    ELSE LET q == norm(item.source_quote.s)
             pg == page_index(item)
         IN  IF pg < 0 \/ pg >= Len(pages) \/ q = << >>
             THEN Outcome("invalid_page_or_empty_quote", "")
             ELSE IF pages[pg + 1].t # "str" THEN Outcome("raise", "TypeError")
             ELSE IF q # << >> /\ contains(norm(pages[pg + 1].s), q)
                  THEN Outcome("matched", "")
                  ELSE Outcome("quote_not_found_on_page", "")

\* the for loop: every paragraph's outcome, cut at the first one that raises
\* (checked counts that one too: checked += 1 comes first)
IsMismatch(m) == m.reason # "matched"

Loop(paragraphs, pages) ==
    LET o == [i \in 1..Len(paragraphs) |-> Check(paragraphs[i], pages)]
        raising == {i \in 1..Len(paragraphs) : o[i].kind = "raise"}
        stop == IF raising = {} THEN Len(paragraphs) + 1
                ELSE CHOOSE i \in raising : \A j \in raising : i <= j
        done == [i \in 1..(stop - 1) |-> [item |-> paragraphs[i], reason |-> o[i].kind]]
    IN  [exc |-> IF raising = {} THEN "" ELSE o[stop].exc,
         checked |-> IF raising = {} THEN Len(paragraphs) ELSE stop,
         matched |-> Cardinality({i \in 1..(stop - 1) : o[i].kind = "matched"}),
         mismatches |-> SelectSeq(done, IsMismatch)]

\* line 258: payload.get("paragraphs") or []
paragraphs_of(p) == IF Truthy(p.paragraphs) THEN p.paragraphs ELSE PyList(<< >>)

\* the precheck without the cap on the number of paragraphs
PrecheckWithoutCap(p) ==
    IF ~p.is_dict THEN Some(Err(Code("invalid_json", "", 0)))
    ELSE IF paragraphs_of(p).t # "list" \/ Len(paragraphs_of(p).items) = 0
         THEN Some(Err(Code("paragraphs_required", "", 0)))
         ELSE None

\* lines 255-267: the checks made before any input is touched; the response
\* they end with, or None to go on
Precheck(p) ==
    IF ~p.is_dict THEN Some(Err(Code("invalid_json", "", 0)))
    ELSE LET paragraphs == paragraphs_of(p)
         IN  IF paragraphs.t # "list" \/ Len(paragraphs.items) = 0
             THEN Some(Err(Code("paragraphs_required", "", 0)))
             ELSE IF Len(paragraphs.items) > MAX_PARAS_PER_CALL
                  THEN Some(Err(Code("too_many_paragraphs", "", Len(paragraphs.items))
                                   @@ [cap |-> MAX_PARAS_PER_CALL])
                            @@ [advice |-> MAX_PARAS_PER_CALL])
             ELSE None

\* lines 255-341: the body of the try
ValidateBody(p) ==
    IF Precheck(p) # None THEN Answer(Precheck(p)[1], NoEffects)
    ELSE LET a == Acquire(p)
         IN  IF a.stop THEN Answer(a.resp, a.effects)
             ELSE IF ~Truthy(a.page_texts) \/ a.page_texts.t # "list"
                  THEN Answer(Err(Code("empty_page_texts", "", 0)), a.effects)
             ELSE LET r == Loop(paragraphs_of(p).items, a.page_texts.items)
                      e == [a.effects EXCEPT !.evaluated = r.checked]
                  IN  IF r.exc # "" THEN Fault(r.exc, e)
                      ELSE Answer([status_code |-> 200, status |-> "ok",
                                   checked |-> r.checked, matched |-> r.matched,
                                   mismatches |-> r.mismatches,
                                   pages |-> Len(a.page_texts.items)], e)

\* the try without its except: the exception leaves the handler
CatchNothing(r) == r

\* lines 343-345: except Exception as e
CatchAll(r) ==
    IF r.exc = "" THEN r
    ELSE Answer(Err(Code("unexpected", r.exc, 0)), r.effects)

validate_quotes(p) == CatchAll(ValidateBody(p))

(***************************************************************************)
(* The requests validate_quotes is given.                                  *)
(***************************************************************************)
Ta_b == <<"a", " ", "b">>
TA_b == <<"A", " ", "b">>
Ta__b == <<"a", " ", " ", "b">>
Tspaced == <<" ", "a", " ", "\n", " ", "b", " ">>
Tblank == <<" ", "\n">>

Item(q, pg) == [t |-> "dict", source_quote |-> q, source_page |-> pg]
NonDictItem == [t |-> "str", source_quote |-> Absent, source_page |-> Absent]

QuotePool == {Absent, PyInt(7), PyStr(Ta__b), PyStr(Tblank), PyStr(TA_b)}
PagePool == {Absent, PyInt(0), PyInt(1), PyInt(2), PyStr(<<"x">>)}
Items == {Item(q, pg) : q \in QuotePool, pg \in PagePool} \cup {NonDictItem}

SeqsUpTo(S, n) == UNION {[1..k -> S] : k \in 0..n}

Pdf(readable, pages) == [readable |-> readable, pages |-> pages]
NoPdf == Pdf(FALSE, << >>)
OnePagePdf == Pdf(TRUE, <<Some(Tspaced)>>)
ImagePdf == Pdf(TRUE, <<None, Some(TA_b)>>)
ZeroPagePdf == Pdf(TRUE, << >>)

B64(valid, size, pdf) ==
    [t |-> "str", truthy |-> TRUE, valid |-> valid, size |-> size, pdf |-> pdf]
NoB64 == [t |-> "absent", truthy |-> FALSE, valid |-> FALSE, size |-> 0, pdf |-> NoPdf]
EmptyB64 == [NoB64 EXCEPT !.t = "str"]

B64Pool ==
    {NoB64, EmptyB64,
     B64(FALSE, 0, NoPdf),
     B64(TRUE, MAX_B64_BYTES + 1, OnePagePdf),
     B64(TRUE, MAX_B64_BYTES, OnePagePdf),
     B64(TRUE, 4096, NoPdf),
     B64(TRUE, 4096, ImagePdf),
     B64(TRUE, 4096, ZeroPagePdf)}

Url(scheme, fetch, status_code, content_type, size, pdf) ==
    [t |-> "str", truthy |-> TRUE, scheme |-> scheme, fetch |-> fetch,
     status_code |-> status_code, content_type |-> content_type, size |-> size, pdf |-> pdf]
NoUrl == [t |-> "absent", truthy |-> FALSE, scheme |-> "", fetch |-> "", status_code |-> 0,
          content_type |-> "", size |-> 0, pdf |-> NoPdf]
EmptyUrl == [NoUrl EXCEPT !.t = "str"]

UrlPool ==
    {NoUrl, EmptyUrl,
     Url("http", "ok", 200, "application/pdf", 4096, OnePagePdf),
     Url("HTTPS", "ok", 200, "application/pdf", 4096, OnePagePdf),
     Url("https", "raise", 0, "", 0, NoPdf),
     Url("https", "ok", 404, "application/pdf", 4096, OnePagePdf),
     Url("https", "ok", 200, "text/html", 4096, OnePagePdf),
     Url("https", "ok", 200, "application/pdf", MAX_B64_BYTES + 1, OnePagePdf),
     Url("https", "ok", 200, "application/pdf", 4096, NoPdf),
     Url("https", "ok", 200, "Application/PDF", 4096, ImagePdf)}

PageTextsPool ==
    {Absent, PyStr(Ta_b), PyList(<< >>),
     PyList(<<PyStr(Ta_b)>>),
     PyList(<<PyStr(TA_b), PyStr(Tspaced)>>),
     PyList(<<PyNone, PyStr(Ta_b)>>)}

GoodItem == Item(PyStr(Ta__b), PyInt(1))
Repeat(x, n) == [i \in 1..n |-> x]

ParagraphsProbe ==
    {Absent, PyStr(Ta_b), PyList(<< >>), PyList(<<GoodItem>>),
     PyList(Repeat(GoodItem, MAX_PARAS_PER_CALL)),
     PyList(Repeat(GoodItem, MAX_PARAS_PER_CALL + 1))}

Payload(ps, pt, b, u) ==
    [is_dict |-> TRUE, paragraphs |-> ps, page_texts |-> pt, pdf_b64 |-> b, pdf_url |-> u]
NoPayload == [Payload(Absent, Absent, NoB64, NoUrl) EXCEPT !.is_dict = FALSE]

\* every combination of the three document inputs, with a few paragraphs lists
DocSweep == {Payload(ps, pt, b, u) :
                ps \in ParagraphsProbe, pt \in PageTextsPool, b \in B64Pool, u \in UrlPool}

\* every paragraphs list of up to MaxClaims items, against given page texts
ClaimSweep == {Payload(PyList(ps), pt, NoB64, NoUrl) :
                  ps \in SeqsUpTo(Items, MaxClaims),
                  pt \in {x \in PageTextsPool : x.t = "list" /\ x.items # << >>}}

Payloads == DocSweep \cup ClaimSweep \cup {NoPayload}

(***************************************************************************)
(* The state machine: one request at a time (the service keeps no state    *)
(* between requests).                                                      *)
(***************************************************************************)
NoInputs == [title |-> << >>, year |-> 0, doi |-> ""]
NoUpstream == [v \in Vias |-> Pending]
NoOut == [status |-> "none"]
NoResp == [status |-> "none"]

Init ==
    /\ pc = "idle"
    /\ inputs = NoInputs
    /\ upstream = NoUpstream
    /\ votes = << >>
    /\ sources = << >>
    /\ out = NoOut
    /\ payload = NoPayload
    /\ resp = NoResp
    /\ effects = NoEffects
    /\ escaped = FALSE

Validator == <<payload, resp, effects>>
Matcher == <<inputs, upstream, votes, sources, out>>

\* lines 2-6
cite_verify ==
    /\ pc = "idle"
    /\ \E t \in ClaimTitles, y \in ClaimYears, d \in ClaimDois :
          inputs' = [title |-> t, year |-> y, doi |-> d]
    /\ upstream' = NoUpstream
    /\ votes' = << >>
    /\ sources' = << >>
    /\ out' = NoOut
    /\ pc' = "crossref"
    /\ UNCHANGED <<Validator, escaped>>

Block(via, r, next) ==
    /\ votes' = votes \o r.votes
    /\ sources' = sources \o r.sources
    /\ escaped' = (escaped \/ r.exc # "")
    /\ pc' = next
    /\ UNCHANGED <<inputs, out, Validator>>

\* lines 9-24
Crossref ==
    /\ pc = "crossref"
    /\ \E o \in CrossrefOutcomes :
          /\ upstream' = [upstream EXCEPT !["crossref"] = o]
          /\ Block("crossref", TryExcept("crossref", CrossrefBody(inputs, o)), "pubmed")

\* lines 27-48
Pubmed ==
    /\ pc = "pubmed"
    /\ \E o \in PubmedOutcomes :
          /\ upstream' = [upstream EXCEPT !["pubmed"] = o]
          /\ Block("pubmed", TryExcept("pubmed", PubmedBody(inputs, o)), "doi")

\* lines 51-60
DoiOrg ==
    /\ pc = "doi"
    /\ IF inputs.doi = ""
       THEN /\ upstream' = [upstream EXCEPT !["doi.org"] = NotAttempted]
            /\ Block("doi.org", Quiet, "aggregate")
       ELSE \E o \in DoiOutcomes :
               /\ upstream' = [upstream EXCEPT !["doi.org"] = o]
               /\ Block("doi.org", TryExcept("doi.org", DoiBody(inputs, o)), "aggregate")

\* lines 62-64
Aggregate ==
    /\ pc = "aggregate"
    /\ out' = [status |-> Status(votes), votes |-> votes, sources |-> sources]
    /\ pc' = "verified"
    /\ UNCHANGED <<inputs, upstream, votes, sources, Validator, escaped>>

\* POST /validate-quotes: the whole handler
Validate ==
    /\ pc = "idle"
    /\ \E p \in Payloads :
          LET r == validate_quotes(p)
          IN  /\ payload' = p
              /\ resp' = r.resp
              /\ effects' = r.effects
              /\ escaped' = (escaped \/ r.exc # "")
    /\ pc' = "validated"
    /\ UNCHANGED Matcher

\* the response has been sent; the next request starts from nothing
Return ==
    /\ pc \in {"verified", "validated"}
    /\ pc' = "idle"
    /\ inputs' = NoInputs
    /\ upstream' = NoUpstream
    /\ votes' = << >>
    /\ sources' = << >>
    /\ out' = NoOut
    /\ payload' = NoPayload
    /\ resp' = NoResp
    /\ effects' = NoEffects
    /\ UNCHANGED escaped

Next == cite_verify \/ Crossref \/ Pubmed \/ DoiOrg \/ Aggregate \/ Validate \/ Return

Spec == Init /\ [][Next]_vars

(***************************************************************************)
(* validate_quotes applied to one paragraph whose quote is cut out of the  *)
(* page it names: every page text up to MaxTextLen characters, alone or    *)
(* beside another page, and every substring of it or of its normal form.   *)
(***************************************************************************)
Alphabet == {"a", "b", " ", "\n"}
Texts == SeqsUpTo(Alphabet, MaxTextLen)
Filler == <<"b", "a">>

Substrings(t) == {SubSeq(t, i, j) : i \in 1..(Len(t) + 1), j \in 0..Len(t)}

RoundTripDocs(t) ==
    {[pages |-> <<PyStr(t)>>, p |-> 1],
     [pages |-> <<PyStr(Filler), PyStr(t)>>, p |-> 2],
     [pages |-> <<PyStr(t), PyStr(Filler)>>, p |-> 1]}

RoundTripPayloads ==
    UNION {{Payload(PyList(<<Item(PyStr(q), PyInt(d.p))>>), PyList(d.pages), NoB64, NoUrl) :
               d \in RoundTripDocs(t), q \in Substrings(t) \cup Substrings(norm(t))} :
           t \in Texts}

InitRoundTrip ==
    /\ pc = "received"
    /\ payload \in RoundTripPayloads
    /\ inputs = NoInputs
    /\ upstream = NoUpstream
    /\ votes = << >>
    /\ sources = << >>
    /\ out = NoOut
    /\ resp = NoResp
    /\ effects = NoEffects
    /\ escaped = FALSE

RoundTrip ==
    /\ pc = "received"
    /\ LET r == validate_quotes(payload)
       IN  /\ resp' = r.resp
           /\ effects' = r.effects
           /\ escaped' = (escaped \/ r.exc # "")
    /\ pc' = "validated"
    /\ UNCHANGED <<payload, Matcher>>

NextRoundTrip == RoundTrip

SpecRoundTrip == InitRoundTrip /\ [][NextRoundTrip]_vars

(***************************************************************************)
(* Properties of cite_verify                                               *)
(***************************************************************************)
VotesOf(via) == {i \in 1..Len(votes) : votes[i].via = via}
ErrorsOf(via) == {i \in 1..Len(sources) :
                     sources[i].via = via /\ "error" \in DOMAIN sources[i]}
RecordsOf(via) == {i \in 1..Len(sources) :
                      sources[i].via = via /\ "error" \notin DOMAIN sources[i]}
TrueVotes == {i \in 1..Len(votes) : votes[i].match}

\* C1: the returned status is "verified" iff some vote is true, "mismatch" iff
\* votes were cast and none is true, "unverified" iff no vote was cast; one
\* true vote is enough whatever the other sources voted.
C1_StatusFromVotes ==
    pc = "verified" =>
        /\ out.votes = votes
        /\ (out.status = "verified") <=> (TrueVotes # {})
        /\ (out.status = "mismatch") <=> (votes # << >> /\ TrueVotes = {})
        /\ (out.status = "unverified") <=> (votes = << >>)

C1_OneTrueAmongFalse ==
    /\ pc = "verified"
    /\ out.status = "verified"
    /\ Len(votes) = 3
    /\ Cardinality(TrueVotes) = 1

\* the year a source's record carries, as a number (None when it is null);
\* PubMed's is the leading four digits of its text
SourceYear(via) ==
    LET y == upstream[via].year
    IN  IF via = "pubmed" THEN Some(pm_year(y))
        ELSE IF via = "crossref" THEN cr_year(upstream[via]).year ELSE y

YearAgrees(via) ==
    \/ inputs.year = 0
    \/ /\ SourceYear(via) # None
       /\ SourceYear(via)[1] - inputs.year \in {0 - 1, 0, 1}

Completed(via) == upstream[via].kind = "record" /\ ErrorsOf(via) = {}

\* C3: at the return there is exactly one vote for each source whose lookup
\* completed with a record, none for a source that raised, had no result or
\* (DOI.org without a DOI) was not attempted; never more than three votes.
C3_OneVotePerCompletedSource ==
    pc = "verified" =>
        /\ \A via \in Vias :
              Cardinality(VotesOf(via)) = IF Completed(via) THEN 1 ELSE 0
        /\ inputs.doi = "" => upstream["doi.org"].kind = "not_attempted"
        /\ Len(votes) <= 3

C3_MixedOutcomes ==
    /\ pc = "verified"
    /\ upstream["crossref"].kind = "raise"
    /\ upstream["pubmed"].kind = "noids"
    /\ upstream["doi.org"].kind = "record"
    /\ Len(votes) = 1
    /\ ErrorsOf("crossref") # {}

Failed(via) ==
    upstream[via].kind \in {"raise", "non200", "non200_json", "unparsable", "malformed"}

\* C4: a source whose lookup failed (network error, timeout, non-200 answer,
\* unparsable answer) has an entry in sources that carries only the error,
\* and no vote.
C4_FailureLeavesErrorEntry ==
    pc = "verified" =>
        \A via \in Vias :
            Failed(via) =>
                /\ \E j \in ErrorsOf(via) : DOMAIN sources[j] = {"via", "error"}
                /\ VotesOf(via) = {}

(***************************************************************************)
(* Properties of validate_quotes                                           *)
(***************************************************************************)
IsGeneric(r) == r.status = "error" /\ r.errors[1].code = "unexpected"

\* C5: no exception leaves cite_verify or validate_quotes; verify returns a
\* status among verified / mismatch / unverified, validate returns ok or
\* error under transport status 200, an internal fault during the
\* evaluation of the claims included.
C5_Total ==
    /\ ~escaped
    /\ pc = "verified" => out.status \in {"verified", "mismatch", "unverified"}
    /\ pc = "validated" => resp.status \in {"ok", "error"} /\ resp.status_code = 200

C5_FaultDuringEvaluation ==
    /\ pc = "validated"
    /\ IsGeneric(resp)
    /\ effects.evaluated = 2

SuppliedPageTexts == payload.page_texts.t = "list" /\ payload.page_texts.items # << >>
SuppliedBytes == payload.pdf_b64.truthy
SuppliedUrl == payload.pdf_url.truthy

ClaimsAccepted ==
    /\ payload.is_dict
    /\ payload.paragraphs.t = "list"
    /\ Len(payload.paragraphs.items) \in 1..MAX_PARAS_PER_CALL

\* the pages the request's document has, by the priority of its inputs
PagesOffered ==
    IF SuppliedPageTexts THEN payload.page_texts.items
    ELSE IF SuppliedBytes THEN ExtractPages(payload.pdf_b64.pdf).items
    ELSE ExtractPages(payload.pdf_url.pdf).items

\* the 1-based page a claim names (1 when it names none, 0 when what it
\* names is no number)
PageNamed(item) ==
    CASE item.source_page.t = "int" -> item.source_page.n
      [] item.source_page.t = "absent" -> 1
      [] OTHER -> 0

Expected(item, pages) ==
    LET q == norm(item.source_quote.s)
        n == PageNamed(item)
    IN  IF (n - 1) \notin 0..(Len(pages) - 1) \/ q = << >>
        THEN "invalid_page_or_empty_quote"
        ELSE LET hay == norm(pages[n].s)
             IN  IF \E a \in 1..Len(hay), b \in 1..Len(hay) : SubSeq(hay, a, b) = q
                 THEN "matched"
                 ELSE "quote_not_found_on_page"

NotMatched(m) == m.reason # "matched"

\* C6: in an accepted request each claim is invalid_page_or_empty_quote iff
\* its page minus 1 is outside 0..pages-1 or its normalized quote is empty,
\* else matched iff the normalized quote is a substring (case-sensitive) of
\* the normalized page, else quote_not_found_on_page; checked is the number
\* of claims, matched + mismatches = checked, mismatches in claim order.
C6_Classification ==
    (pc = "validated" /\ resp.status = "ok") =>
        LET ps == payload.paragraphs.items
            exp == [i \in 1..Len(ps) |->
                       [item |-> ps[i], reason |-> Expected(ps[i], PagesOffered)]]
        IN  /\ resp.checked = Len(ps)
            /\ resp.matched = Cardinality({i \in 1..Len(ps) : exp[i].reason = "matched"})
            /\ resp.matched + Len(resp.mismatches) = resp.checked
            /\ resp.mismatches = SelectSeq(exp, NotMatched)

C6_MatchedAndPageZero ==
    /\ pc = "validated"
    /\ resp.status = "ok"
    /\ resp.checked = 2
    /\ resp.matched = 1
    /\ resp.mismatches[1].reason = "invalid_page_or_empty_quote"
    /\ resp.mismatches[1].item.source_page = PyInt(0)
    /\ resp.mismatches[1].item.source_quote = PyStr(Ta__b)

\* C7: the document comes from the page texts if supplied, else from the
\* base64 bytes if supplied, else from the URL, and from one of them only:
\* with page texts nothing is decoded or fetched, with bytes nothing is
\* fetched (a failed decoding or extraction included), and with none of the
\* three the "no input provided" error is returned.
C7_InputPriority ==
    pc = "validated" =>
        /\ ~(effects.decoded /\ effects.fetched)
        /\ SuppliedPageTexts =>
              ~effects.decoded /\ ~effects.fetched /\ ~effects.extracted
        /\ (~SuppliedPageTexts /\ SuppliedBytes) => ~effects.fetched
        /\ (ClaimsAccepted /\ ~SuppliedPageTexts /\ SuppliedBytes) => effects.decoded
        /\ (ClaimsAccepted /\ ~SuppliedPageTexts /\ ~SuppliedBytes /\ SuppliedUrl
                /\ payload.pdf_url.scheme = "https") => effects.fetched
        /\ (ClaimsAccepted /\ ~SuppliedPageTexts /\ ~SuppliedBytes /\ ~SuppliedUrl) =>
              /\ resp.status = "error"
              /\ resp.errors[1].code = "pdf_b64_or_page_texts_or_pdf_url_required"

C7_AllThreeSupplied ==
    /\ pc = "validated"
    /\ SuppliedPageTexts
    /\ SuppliedBytes /\ payload.pdf_b64.valid /\ payload.pdf_b64.pdf.readable
    /\ SuppliedUrl /\ payload.pdf_url.scheme = "https" /\ payload.pdf_url.fetch = "ok"
    /\ resp.status = "ok"
    /\ effects = [NoEffects EXCEPT !.evaluated = 1]

\* C8: a claims list that is missing, empty or longer than the cap of 100 is
\* answered with status error (over the cap: a code naming the cap, and
\* advice) and nothing is processed: no input decoded, fetched or extracted,
\* no claim evaluated.
C8_ClaimsPrecheck ==
    (pc = "validated" /\ payload.is_dict) =>
        /\ (payload.paragraphs.t = "absent" \/ payload.paragraphs = PyList(<< >>)) =>
              /\ resp.status = "error"
              /\ resp.errors[1].code = "paragraphs_required"
              /\ effects = NoEffects
        /\ (payload.paragraphs.t = "list"
                /\ Len(payload.paragraphs.items) > MAX_PARAS_PER_CALL) =>
              /\ resp.status = "error"
              /\ resp.errors[1].code = "too_many_paragraphs"
              /\ resp.errors[1].cap = MAX_PARAS_PER_CALL
              /\ "advice" \in DOMAIN resp
              /\ effects = NoEffects

C8_OverCapWithDocument ==
    /\ pc = "validated"
    /\ Len(payload.paragraphs.items) = MAX_PARAS_PER_CALL + 1
    /\ SuppliedBytes /\ payload.pdf_b64.valid
    /\ resp.status = "error"
    /\ resp.errors[1].n = MAX_PARAS_PER_CALL + 1

\* a claim entry that is no object, or whose source_quote is missing or no
\* string
MalformedClaim(item) == item.t # "dict" \/ item.source_quote.t # "str"

\* C9: an input error (a claim entry without source_quote, with a
\* source_quote that is no string, or that is no object, among others) is
\* answered with a code of its own or a per-claim reason, never through the
\* generic unexpected-fault response.
C9_InputErrorsHaveOwnCode ==
    (/\ pc = "validated"
     /\ payload.is_dict
     /\ payload.paragraphs.t = "list"
     /\ \E i \in 1..Len(payload.paragraphs.items) :
           MalformedClaim(payload.paragraphs.items[i]))
        => ~IsGeneric(resp)

(***************************************************************************)
(* Round trip (SpecRoundTrip)                                              *)
(***************************************************************************)
QuoteAsked == payload.paragraphs.items[1].source_quote.s
PageAsked == payload.page_texts.items[payload.paragraphs.items[1].source_page.n].s

CountedAsMatched ==
    /\ resp.status = "ok"
    /\ resp.checked = 1
    /\ resp.matched = 1
    /\ resp.mismatches = << >>

\* C10 as stated: a (non-empty) substring of the page's normalized text,
\* asked for on that page, is always counted as matched.
C10_EverySubstringMatches ==
    (/\ pc = "validated"
     /\ QuoteAsked # << >>
     /\ QuoteAsked \in Substrings(norm(PageAsked)))
        => CountedAsMatched

\* C10, amended: a substring of the page's text or normalized text that has
\* a non-whitespace character is always counted as matched; norm is
\* idempotent on the page text and on the quote.
C10_RoundTrip ==
    pc = "validated" =>
        /\ norm(QuoteAsked) # << >> => CountedAsMatched
        /\ norm(norm(PageAsked)) = norm(PageAsked)
        /\ norm(norm(QuoteAsked)) = norm(QuoteAsked)

C10_QuoteWithRawWhitespace ==
    /\ pc = "validated"
    /\ CountedAsMatched
    /\ norm(QuoteAsked) # QuoteAsked
    /\ norm(PageAsked) # PageAsked
    /\ Len(payload.page_texts.items) = 2

\* a record that lacks its year: Crossref's issued without date-parts, with
\* empty date-parts, with an empty tuple or with a null year; PubMed's PubDate
\* without a Year or with a Year that is not a number
LacksYear(via) ==
    LET o == upstream[via]
    IN  /\ o.kind = "record"
        /\ \/ via = "crossref" /\ (o.issued \in IssuedWithoutYear \/ o.year = None)
           \/ via = "pubmed" /\ (o.year = None \/ ~isdigit(Prefix(o.year[1], 4)))

LacksTitle(via) == upstream[via].kind = "record" /\ upstream[via].title = << >>

\* C11: at the return, a Crossref or PubMed record that lacks its title or
\* its year is still evaluated: the source has no error entry, has cast its
\* one vote, and its entry in sources carries "" for the missing title and 0
\* for the missing year.
C11_MissingFieldDefaults ==
    pc = "verified" =>
        \A via \in {"crossref", "pubmed"} :
            (LacksYear(via) \/ LacksTitle(via)) =>
                /\ ErrorsOf(via) = {}
                /\ Cardinality(VotesOf(via)) = 1
                /\ \E j \in RecordsOf(via) :
                      /\ LacksTitle(via) => sources[j].title = << >>
                      /\ LacksYear(via) => sources[j].year = Some(0)

====
